---- MODULE Spec2Model ----
(***************************************************************************)
(* Global Presence Map: the entity-resolution and visualization-compute    *)
(* core.  Normalizer (src/lib/normalize.ts), City Resolver                 *)
(* (src/lib/cities.ts), Member Registry (src/lib/members.ts), Meeting      *)
(* Registry (src/lib/meetings.ts), the POST /api/meetings handler and the  *)
(* GET /api/meetings/[id]/visualization handler.                           *)
(*                                                                         *)
(* A JavaScript string is modelled as a sequence of characters, each       *)
(* character being a one-element TLA+ string.                              *)
(***************************************************************************)
EXTENDS Integers, Sequences, FiniteSets, TLC

VARIABLES
    membersFile,   \* content of src/data/members.json: a sequence of member records
    meetingFiles,  \* src/data/meetings/: the set of files, [name |-> id, json |-> content]
    citiesCache,   \* cities.ts citiesCache: the Map, as its entries in insertion order
    now,           \* the clock read by new Date()
    idsIssued,     \* how many ids generateId() has returned
    last,          \* the last call made to the core and what it returned
    procs          \* the in-flight findOrCreateMember calls of the interleaved runs

vars == <<membersFile, meetingFiles, citiesCache, now, idsIssued, last, procs>>

----------------------------------------------------------------------------
(* Bounds of the model *)

MaxTextLen == 3      \* longest text handed to normalizeInput on its own
MaxCityLen == 3      \* longest city name handed to the City Resolver on its own
MaxMembers == 2      \* most records the member registry is let grow to
MaxNow == 1          \* last tick of the clock
MaxProcs == 2        \* most findOrCreateMember calls in flight at once
MaxParticipants == 3 \* most participants in one POST /api/meetings request
TicksPerDay == 2     \* clock ticks in one calendar day
MaxMeetings == 2     \* most files of src/data/meetings/ written by createMeeting
MaxDay == 1          \* last calendar day the clock reaches, counted from day 0
MaxTitleLen == 4     \* longest title whose slug is computed
MaxIds == 3          \* most ids generated while file system calls can fail
MaxIdsAsked == 3     \* longest list of ids given to getMembersByIds

----------------------------------------------------------------------------
(* Characters and JavaScript's string primitives *)

\* U+00DF LATIN SMALL LETTER SHARP S: its upper case is the two letters "SS"
SharpS == "sharp-s"

\* U+1E9E LATIN CAPITAL LETTER SHARP S: its lower case is U+00DF, it is its own
\* upper case
CapitalSharpS == "capital-sharp-s"

\* the value `undefined` of an optional string parameter
Undefined == <<"undefined">>

\* what String.prototype.trim removes and what /\s/ matches
WhiteSpace == {" ", "\t", "\n"}

\* String.prototype.toUpperCase on one character (Unicode SpecialCasing included)
UpperOfChar(c) ==
    CASE c = "a" -> <<"A">>
      [] c = "b" -> <<"B">>
      [] c = "p" -> <<"P">>
      [] c = "q" -> <<"Q">>
      [] c = "s" -> <<"S">>
      [] c = SharpS -> <<"S", "S">>
      [] OTHER -> <<c>>

\* String.prototype.toLowerCase on one character
LowerOfChar(c) ==
    CASE c = "A" -> <<"a">>
      [] c = "B" -> <<"b">>
      [] c = "P" -> <<"p">>
      [] c = "Q" -> <<"q">>
      [] c = "S" -> <<"s">>
      [] c = CapitalSharpS -> <<SharpS>>
      [] OTHER -> <<c>>

RECURSIVE toUpperCase(_)
toUpperCase(s) ==
    IF s = <<>> THEN <<>> ELSE UpperOfChar(Head(s)) \o toUpperCase(Tail(s))

RECURSIVE toLowerCase(_)
toLowerCase(s) ==
    IF s = <<>> THEN <<>> ELSE LowerOfChar(Head(s)) \o toLowerCase(Tail(s))

\* s.charAt(0): the first character as a string, "" for the empty string
charAt0(s) == IF s = <<>> THEN <<>> ELSE <<Head(s)>>

\* s.slice(1)
slice1(s) == IF s = <<>> THEN <<>> ELSE Tail(s)

RECURSIVE trimStart(_)
trimStart(s) ==
    IF s # <<>> /\ Head(s) \in WhiteSpace THEN trimStart(Tail(s)) ELSE s

RECURSIVE trimEnd(_)
trimEnd(s) ==
    IF s # <<>> /\ s[Len(s)] \in WhiteSpace
    THEN trimEnd(SubSeq(s, 1, Len(s) - 1))
    ELSE s

\* String.prototype.trim
trim(s) == trimEnd(trimStart(s))

\* s.split(/\s+/): the pieces between the maximal whitespace runs; `piece` is the
\* piece being read.  "".split(/\s+/) is [""].
RECURSIVE splitFrom(_, _)
splitFrom(s, piece) ==
    IF s = <<>> THEN <<piece>>
    ELSE IF Head(s) \in WhiteSpace
         THEN <<piece>> \o splitFrom(trimStart(s), <<>>)
         ELSE splitFrom(Tail(s), Append(piece, Head(s)))

splitWhitespace(s) == splitFrom(s, <<>>)

\* words.join(" ")
RECURSIVE joinSpace(_)
joinSpace(words) ==
    IF words = <<>> THEN <<>>
    ELSE IF Len(words) = 1 THEN words[1]
    ELSE words[1] \o <<" ">> \o joinSpace(Tail(words))

\* every string over `alphabet` of length at most n
RECURSIVE Strings(_, _)
Strings(alphabet, n) ==
    IF n = 0 THEN {<<>>}
    ELSE LET shorter == Strings(alphabet, n - 1)
         IN  shorter \cup {Append(s, c) : s \in shorter, c \in alphabet}

----------------------------------------------------------------------------
(* Normalizer: src/lib/normalize.ts *)

\* capitalizeWord without the .toLowerCase() on the rest of the word
capitalizeWord_KeepsRest(word) == toUpperCase(charAt0(word)) \o slice1(word)

\* the .map callback: word.charAt(0).toUpperCase() + word.slice(1).toLowerCase()
capitalizeWord(word) == toUpperCase(charAt0(word)) \o toLowerCase(slice1(word))

\* normalizeInput without the .trim()
normalizeInput_NoTrim(text) ==
    IF text = Undefined \/ text = <<>> THEN <<>>
    ELSE LET words == splitWhitespace(text)
         IN  joinSpace([i \in 1..Len(words) |-> capitalizeWord(words[i])])

normalizeInput(text) ==
    IF text = Undefined \/ text = <<>> THEN <<>>
    ELSE LET words == splitWhitespace(trim(text))
         IN  joinSpace([i \in 1..Len(words) |-> capitalizeWord(words[i])])

----------------------------------------------------------------------------
(* City Resolver: src/lib/cities.ts *)

\* src/data/cities.json, the geocoded dataset imported as citiesData: one record
\* per city, keyed by its lower-case name with the internal spaces kept
citiesData ==
    << [normalizedName |-> <<"p">>, displayName |-> <<"P">>, lat |-> 48, lng |-> 2],
       [normalizedName |-> <<"p", " ", "q">>, displayName |-> <<"P", " ", "Q">>,
        lat |-> 40, lng |-> -74] >>

\* Map.prototype.set on the entries of a Map keyed by normalizedName
mapSet(map, city) ==
    IF \E i \in 1..Len(map) : map[i].normalizedName = city.normalizedName
    THEN [i \in 1..Len(map) |->
            IF map[i].normalizedName = city.normalizedName THEN city ELSE map[i]]
    ELSE Append(map, city)

\* Map.prototype.get(key) ?? null: no city, or the one city stored under key
mapGet(map, key) == {map[i] : i \in {j \in 1..Len(map) : map[j].normalizedName = key}}

\* s.replace(/\s+/g, '')
RECURSIVE removeWhitespace(_)
removeWhitespace(s) ==
    IF s = <<>> THEN <<>>
    ELSE IF Head(s) \in WhiteSpace THEN removeWhitespace(Tail(s))
    ELSE <<Head(s)>> \o removeWhitespace(Tail(s))

\* a lookup key with the internal spaces removed as well
normalizeCityName_StripsSpaces(cityName) == removeWhitespace(toLowerCase(cityName))

normalizeCityName(cityName) == trim(toLowerCase(cityName))

\* Object.values(citiesData).forEach(city => citiesCache.set(...)) from entry i on
RECURSIVE populateFrom(_, _)
populateFrom(map, i) ==
    IF i > Len(citiesData) THEN map
    ELSE populateFrom(mapSet(map, citiesData[i]), i + 1)

\* initializeCitiesCache with its guard inverted: an empty cache is left empty
initializeCitiesCache_NeverPopulates(cache) ==
    IF Len(cache) = 0 THEN cache ELSE populateFrom(cache, 1)

\* a population that hands control back after its first entry
initializeCitiesCache_Partial(cache) ==
    IF Len(cache) > 0 THEN cache ELSE mapSet(cache, citiesData[1])

\* the cache after initializeCitiesCache() has run on `cache`
initializeCitiesCache(cache) ==
    IF Len(cache) > 0 THEN cache ELSE populateFrom(cache, 1)

\* getCityByName's result on an initialized cache: {} is null
cityByName(cache, cityName) == mapGet(cache, normalizeCityName(cityName))

\* getCityCoordinates answering an unknown city with a placeholder coordinate
cityCoordinates_WithFallback(cache, cityName) ==
    IF cityByName(cache, cityName) = {} THEN {[lat |-> 0, lng |-> 0]}
    ELSE {[lat |-> city.lat, lng |-> city.lng] : city \in cityByName(cache, cityName)}

\* getCityCoordinates's result on an initialized cache: {} is null
cityCoordinates(cache, cityName) ==
    {[lat |-> city.lat, lng |-> city.lng] : city \in cityByName(cache, cityName)}

----------------------------------------------------------------------------
(* Member Registry: src/lib/members.ts *)

\* a record of members.json that has no id field (written before ids existed)
NoId == 0

\* an id taken from a clock too coarse to tell two consecutive calls apart
generateId_Coarse(issued) == (issued \div 2) + 1

\* an id generator that returns the same value again
generateId_Repeats(issued) == 1

\* crypto.randomUUID(): a value never returned before; ids are numbered in the
\* order they are issued
generateId(issued) == issued + 1

\* loadMembers(): the parsed content of members.json ([] when the file is absent)
loadMembers(file) == file

\* saveMembers(members): the content of members.json after the write
saveMembers(members) == members

\* the find of findMember comparing the stored name and city as they are written
findIndex_CaseSensitive(members, name, city) ==
    LET normalizedName == toLowerCase(name)
        normalizedCity == toLowerCase(city)
        matches == {i \in 1..Len(members) :
                        /\ members[i].name = normalizedName
                        /\ members[i].city = normalizedCity}
    IN  {i \in matches : \A j \in matches : i <= j}

\* members.find(m => m.name.toLowerCase() === normalizedName && ...): the index
\* of the first match, as a set ({} when there is none)
findIndex(members, name, city) ==
    LET normalizedName == toLowerCase(name)
        normalizedCity == toLowerCase(city)
        matches == {i \in 1..Len(members) :
                        /\ toLowerCase(members[i].name) = normalizedName
                        /\ toLowerCase(members[i].city) = normalizedCity}
    IN  {i \in matches : \A j \in matches : i <= j}

\* findMember assigning an id to every record it finds, with or without one
findMember_AlwaysAssignsId(file, issued, name, city) ==
    LET members == file
        matches == {i \in 1..Len(members) :
                        /\ toLowerCase(members[i].name) = toLowerCase(name)
                        /\ toLowerCase(members[i].city) = toLowerCase(city)}
    IN  IF matches = {} THEN [found |-> {}, file |-> file, issued |-> issued]
        ELSE LET i == CHOOSE k \in matches : \A j \in matches : k <= j
                 fixed == [members EXCEPT ![i].id = issued + 1]
             IN  [found |-> {fixed[i]}, file |-> fixed, issued |-> issued + 1]

\* findMember(name, city) run on the file and the ids issued so far: what it
\* returns (found: {} is null), the file and the ids issued after it
findMember(file, issued, name, city) ==
    LET members == loadMembers(file)
        at == findIndex(members, name, city)
    IN  IF at = {} THEN [found |-> {}, file |-> file, issued |-> issued]
        ELSE LET i == CHOOSE k \in at : TRUE
             IN  IF members[i].id = NoId
                 THEN LET fixed == [members EXCEPT ![i].id = generateId(issued)]
                      IN  [found |-> {fixed[i]}, file |-> saveMembers(fixed),
                           issued |-> issued + 1]
                 ELSE [found |-> {members[i]}, file |-> file, issued |-> issued]

\* findOrCreateMember as an upsert: a hit rewrites the stored record with the
\* name and the city as they were given
findOrCreateMember_Upsert(file, issued, clock, name, city) ==
    LET normalizedName == normalizeInput(name)
        normalizedCity == normalizeInput(city)
    IN  IF normalizedName = <<>> \/ normalizedCity = <<>>
        THEN [threw |-> TRUE, ret |-> {}, created |-> FALSE,
              file |-> file, issued |-> issued]
        ELSE LET existing == findMember(file, issued, normalizedName, normalizedCity)
             IN  IF existing.found # {}
                 THEN LET i == CHOOSE k \in findIndex(existing.file, normalizedName,
                                                      normalizedCity) : TRUE
                          updated == [existing.file EXCEPT ![i].name = name,
                                                           ![i].city = city]
                      IN  [threw |-> FALSE, ret |-> {updated[i]}, created |-> FALSE,
                           file |-> saveMembers(updated), issued |-> existing.issued]
                 ELSE LET newMember == [id |-> generateId(existing.issued),
                                        name |-> normalizedName,
                                        city |-> normalizedCity,
                                        createdAt |-> clock]
                      IN  [threw |-> FALSE, ret |-> {newMember}, created |-> TRUE,
                           file |-> saveMembers(Append(loadMembers(existing.file), newMember)),
                           issued |-> existing.issued + 1]

\* findOrCreateMember(name, city) run on the file, the ids issued so far and the
\* clock: whether it threw, the member returned, whether it created it, and the
\* file and ids issued after it
findOrCreateMember(file, issued, clock, name, city) ==
    LET normalizedName == normalizeInput(name)
        normalizedCity == normalizeInput(city)
    IN  IF normalizedName = <<>> \/ normalizedCity = <<>>
        THEN [threw |-> TRUE, ret |-> {}, created |-> FALSE,
              file |-> file, issued |-> issued]
        ELSE LET existing == findMember(file, issued, normalizedName, normalizedCity)
             IN  IF existing.found # {}
                 THEN [threw |-> FALSE, ret |-> existing.found, created |-> FALSE,
                       file |-> existing.file, issued |-> existing.issued]
                 ELSE LET newMember == [id |-> generateId(existing.issued),
                                        name |-> normalizedName,
                                        city |-> normalizedCity,
                                        createdAt |-> clock]
                      IN  [threw |-> FALSE, ret |-> {newMember}, created |-> TRUE,
                           file |-> saveMembers(Append(loadMembers(existing.file), newMember)),
                           issued |-> existing.issued + 1]

\* getMembersByIds answering an id that no record has with a stand-in member
getMembersByIds_StandIn(file, ids) ==
    LET members == loadMembers(file)
        hits(id) == {i \in 1..Len(members) : members[i].id = id}
    IN  [k \in 1..Len(ids) |->
            IF hits(ids[k]) = {}
            THEN [id |-> ids[k], name |-> <<"S">>, city |-> <<"P">>, createdAt |-> 0]
            ELSE members[CHOOSE i \in hits(ids[k]) : \A j \in hits(ids[k]) : i <= j]]

\* the members whose id is among ids, in the order of the registry
getMembersByIds_RegistryOrder(file, ids) ==
    SelectSeq(loadMembers(file), LAMBDA m : \E k \in 1..Len(ids) : ids[k] = m.id)

\* getMembersByIds(ids): ids.map(find by id).filter(found and has an id)
getMembersByIds(file, ids) ==
    LET members == loadMembers(file)
        hit(id) == {i \in 1..Len(members) :
                        /\ members[i].id = id
                        /\ \A j \in 1..Len(members) : members[j].id = id => i <= j}
        mapped == [k \in 1..Len(ids) |-> {members[i] : i \in hit(ids[k])}]
        kept == {k \in 1..Len(ids) : mapped[k] # {} /\ \A m \in mapped[k] : m.id # NoId}
        pick(k) == CHOOSE m \in mapped[k] : TRUE
        nth(n) == CHOOSE k \in kept : Cardinality({j \in kept : j < k}) = n - 1
    IN  [n \in 1..Cardinality(kept) |-> pick(nth(n))]

----------------------------------------------------------------------------
(* Inputs *)

NormAlphabet == {"a", "A", "s", "S", SharpS, " ", "\t", "\n", "-"}
TextInputs == Strings(NormAlphabet, MaxTextLen) \cup {Undefined}

CityAlphabet == {"p", "P", "q", " "}
CityNameInputs == Strings(CityAlphabet, MaxCityLen)

\* the names and cities handed to findOrCreateMember
MemberNameInputs ==
    { <<"a">>, <<" ", "A">>, <<SharpS>>, <<CapitalSharpS>>, <<" ">>, Undefined }
MemberCityInputs ==
    { <<"p", " ", "q">>, <<"P", "\t", " ", "Q", " ">>, <<"q">>, <<>> }

\* the names and cities handed to the findOrCreateMember calls that interleave
RaceNameInputs == { <<"a">>, <<" ", "A">> }
RaceCityInputs == { <<"q">>, <<"p", " ", "q">> }

\* members.json as found at start-up: absent, or holding one record that was
\* written before members had ids
LegacyMember == [id |-> NoId, name |-> <<"A">>, city |-> <<"P", " ", "Q">>, createdAt |-> 0]
InitialMemberFiles == { <<>>, <<LegacyMember>> }

----------------------------------------------------------------------------
(* State *)

NoCall == [op |-> "none"]

\* the stores as they are before the first request
FilesIdle ==
    /\ membersFile = <<>>
    /\ meetingFiles = {}
    /\ now = 0
    /\ idsIssued = 0
    /\ procs = <<>>

----------------------------------------------------------------------------
(* The Normalizer called on its own: the text is drawn at the start, the call
   applies normalizeInput to it *)

NormalizeInput ==
    /\ last.op = "input"
    /\ last' = [op |-> "normalizeInput", text |-> last.text,
                ret |-> normalizeInput(last.text)]
    /\ UNCHANGED <<membersFile, meetingFiles, citiesCache, now, idsIssued, procs>>

InitNorm ==
    /\ FilesIdle
    /\ citiesCache = <<>>
    /\ last \in {[op |-> "input", text |-> text] : text \in TextInputs}

NextNorm == NormalizeInput

SpecNorm == InitNorm /\ [][NextNorm]_vars

\* ---- what the Normalizer's contract says, stated on positions of the text ----

IsBlank(text) == text = Undefined \/ \A i \in 1..Len(text) : text[i] \in WhiteSpace

\* where a token (a maximal run of non-whitespace characters) starts
TokenStarts(s) ==
    {i \in 1..Len(s) : s[i] \notin WhiteSpace /\ (i = 1 \/ s[i - 1] \in WhiteSpace)}

\* the last position of the token that starts at i
TokenEnd(s, i) ==
    CHOOSE j \in i..Len(s) :
        /\ \A k \in i..j : s[k] \notin WhiteSpace
        /\ (j = Len(s) \/ s[j + 1] \in WhiteSpace)

\* the k-th token of s, counted from 1
NthToken(s, k) ==
    LET i == CHOOSE t \in TokenStarts(s) :
                 Cardinality({u \in TokenStarts(s) : u < t}) = k - 1
    IN  SubSeq(s, i, TokenEnd(s, i))

\* a token with its first character upper-cased and the others lower-cased
TitleCased(token) ==
    UpperOfChar(token[1]) \o toLowerCase(SubSeq(token, 2, Len(token)))

\* C6: normalize is idempotent: normalizing the result of a call gives that
\* result again, for every input text.
C6_Idempotent ==
    last.op = "normalizeInput" => normalizeInput(last.ret) = last.ret

\* C7: for a non-blank text the result holds the text's whitespace-separated
\* tokens in their order, title-cased, separated by exactly one space, with no
\* other whitespace; a hyphen does not end a token.
C7_TitleCasedTokens ==
    (last.op = "normalizeInput" /\ ~IsBlank(last.text)) =>
        LET text == last.text
            ret == last.ret
            n == Cardinality(TokenStarts(text))
        IN  /\ Cardinality(TokenStarts(ret)) = n
            /\ \A k \in 1..n : NthToken(ret, k) = TitleCased(NthToken(text, k))
            /\ ret[1] \notin WhiteSpace
            /\ ret[Len(ret)] \notin WhiteSpace
            /\ \A i \in 1..Len(ret) :
                   ret[i] \in WhiteSpace => (ret[i] = " " /\ ret[i + 1] \notin WhiteSpace)

\* a text of two tokens separated by a tab or a newline, the second one holding
\* a hyphen, has been normalized
C7_Witness ==
    /\ last.op = "normalizeInput"
    /\ last.text = <<"s", "\n", "-">>
    /\ last.ret = <<"S", " ", "-">>

----------------------------------------------------------------------------
(* The City Resolver called on its own *)

GetCityByName(cityName) ==
    LET cache == initializeCitiesCache(citiesCache)
    IN  /\ citiesCache' = cache
        /\ last' = [op |-> "getCityByName", cityName |-> cityName,
                    ret |-> cityByName(cache, cityName)]
        /\ UNCHANGED <<membersFile, meetingFiles, now, idsIssued, procs>>

GetCityCoordinates(cityName) ==
    LET cache == initializeCitiesCache(citiesCache)
    IN  /\ citiesCache' = cache
        /\ last' = [op |-> "getCityCoordinates", cityName |-> cityName,
                    ret |-> cityCoordinates(cache, cityName)]
        /\ UNCHANGED <<membersFile, meetingFiles, now, idsIssued, procs>>

CityExists(cityName) ==
    LET cache == initializeCitiesCache(citiesCache)
    IN  /\ citiesCache' = cache
        /\ last' = [op |-> "cityExists", cityName |-> cityName,
                    ret |-> cityByName(cache, cityName) # {}]
        /\ UNCHANGED <<membersFile, meetingFiles, now, idsIssued, procs>>

InitCity == FilesIdle /\ citiesCache = <<>> /\ last = NoCall

NextCity ==
    \E cityName \in CityNameInputs :
        \/ GetCityByName(cityName)
        \/ GetCityCoordinates(cityName)
        \/ CityExists(cityName)

SpecCity == InitCity /\ [][NextCity]_vars

\* ---- what the City Resolver's contract says ----

\* the two cases of one letter
CasePairs ==
    { {"a", "A"}, {"b", "B"}, {"p", "P"}, {"q", "Q"}, {"s", "S"},
      {SharpS, CapitalSharpS} }

SameLetter(c, d) == c = d \/ {c, d} \in CasePairs

\* x and y are the same string up to the case of their letters
SameIgnoringCase(x, y) ==
    /\ Len(x) = Len(y)
    /\ \A i \in 1..Len(x) : SameLetter(x[i], y[i])

\* the text between the first and the last non-whitespace character of s
Core(s) ==
    LET inner == {i \in 1..Len(s) : s[i] \notin WhiteSpace}
    IN  IF inner = {} THEN <<>>
        ELSE SubSeq(s, CHOOSE i \in inner : \A j \in inner : i <= j,
                       CHOOSE i \in inner : \A j \in inner : j <= i)

\* a and b differ only in letter case and in leading or trailing whitespace
DifferOnlyInCaseAndOuterSpace(a, b) == SameIgnoringCase(Core(a), Core(b))

\* the dataset's entries whose normalizedName is the lower-cased, trimmed name
DatasetEntries(cityName) ==
    {citiesData[i] : i \in {j \in 1..Len(citiesData) :
                               citiesData[j].normalizedName = toLowerCase(trim(cityName))}}

DatasetCoordinates(cityName) ==
    {[lat |-> d.lat, lng |-> d.lng] : d \in DatasetEntries(cityName)}

----------------------------------------------------------------------------
(* The Member Registry called sequentially *)

\* time passes between calls
Tick ==
    /\ now < MaxNow
    /\ now' = now + 1
    /\ UNCHANGED <<membersFile, meetingFiles, citiesCache, idsIssued, last, procs>>

FindOrCreateMember(name, city) ==
    \E r \in {findOrCreateMember(membersFile, idsIssued, now, name, city)} :
        /\ r.created => Len(membersFile) < MaxMembers
        /\ membersFile' = r.file
        /\ idsIssued' = r.issued
        /\ last' = [op |-> "findOrCreateMember", name |-> name, city |-> city,
                    threw |-> r.threw, ret |-> r.ret, created |-> r.created,
                    before |-> membersFile, at |-> now]
        /\ UNCHANGED <<meetingFiles, citiesCache, now, procs>>

InitMembers ==
    /\ membersFile \in InitialMemberFiles
    /\ meetingFiles = {}
    /\ citiesCache = <<>>
    /\ now = 0
    /\ idsIssued = 0
    /\ last = NoCall
    /\ procs = <<>>

NextMembers ==
    \/ Tick
    \/ \E name \in MemberNameInputs, city \in MemberCityInputs :
           FindOrCreateMember(name, city)

SpecMembers == InitMembers /\ [][NextMembers]_vars

\* ---- what the Member Registry's contract says ----

\* x and y differ only in letter case and in leading, trailing or repeated
\* whitespace: they hold the same tokens up to case
DifferOnlyInCaseAndSpace(x, y) ==
    /\ x # Undefined
    /\ y # Undefined
    /\ Cardinality(TokenStarts(x)) = Cardinality(TokenStarts(y))
    /\ \A k \in 1..Cardinality(TokenStarts(x)) :
           SameIgnoringCase(NthToken(x, k), NthToken(y, k))

SamePair(m1, m2) ==
    SameIgnoringCase(m1.name, m2.name) /\ SameIgnoringCase(m1.city, m2.city)

FindOrCreateReturned == last.op = "findOrCreateMember" /\ ~last.threw

TheMember(ret) == CHOOSE m \in ret : TRUE

\* C1: two findOrCreate calls made one after the other with inputs that differ
\* only in letter case and whitespace return a member with the same id.
C1_SameIdForVariants ==
    [][ ( /\ FindOrCreateReturned
          /\ FindOrCreateReturned'
          /\ DifferOnlyInCaseAndSpace(last.name, last'.name)
          /\ DifferOnlyInCaseAndSpace(last.city, last'.city) )
        => TheMember(last'.ret).id = TheMember(last.ret).id ]_vars

C4_BlankRaises ==
    (last.op = "findOrCreateMember" /\ (IsBlank(last.name) \/ IsBlank(last.city))) =>
        /\ last.threw
        /\ membersFile = last.before

\* a call with a whitespace-only name and a good city has raised on a registry
\* that holds a record
C4_Witness ==
    /\ last.op = "findOrCreateMember"
    /\ last.name = <<" ">>
    /\ ~IsBlank(last.city)
    /\ last.threw
    /\ Len(membersFile) = 1

----------------------------------------------------------------------------
(* findOrCreateMember calls of several server processes sharing members.json:
   each call is a sequence of steps, one per read or write of the file, and
   the steps of different calls interleave.  procs[p] is call p: where it is
   (pc), its arguments and its local variables. *)

\* lines 124-130: the call is made, the arguments are normalized and checked
RaceCall(name, city) ==
    /\ Len(procs) < MaxProcs
    /\ LET normalizedName == normalizeInput(name)
           normalizedCity == normalizeInput(city)
           blank == normalizedName = <<>> \/ normalizedCity = <<>>
       IN  procs' = Append(procs,
                [pc |-> IF blank THEN "done" ELSE "find",
                 name |-> name, city |-> city,
                 normalizedName |-> normalizedName, normalizedCity |-> normalizedCity,
                 members |-> <<>>, found |-> {}, newMember |-> {},
                 threw |-> blank, created |-> FALSE, ret |-> {}])
    /\ UNCHANGED <<membersFile, meetingFiles, citiesCache, now, idsIssued, last>>

\* findMember lines 74-85: read the file, look the pair up, give a record that
\* has no id one
RaceFindLoad(p) ==
    /\ procs[p].pc = "find"
    /\ LET members == loadMembers(membersFile)
           at == findIndex(members, procs[p].normalizedName, procs[p].normalizedCity)
       IN  IF at = {}
           THEN /\ procs' = [procs EXCEPT ![p].pc = "create", ![p].members = members]
                /\ UNCHANGED idsIssued
           ELSE LET i == CHOOSE k \in at : TRUE
                IN  IF members[i].id = NoId
                    THEN LET fixed == [members EXCEPT ![i].id = generateId(idsIssued)]
                         IN  /\ procs' = [procs EXCEPT ![p].pc = "findSave",
                                                       ![p].members = fixed,
                                                       ![p].found = {fixed[i]}]
                             /\ idsIssued' = idsIssued + 1
                    ELSE /\ procs' = [procs EXCEPT ![p].pc = "done",
                                                   ![p].members = members,
                                                   ![p].found = {members[i]},
                                                   ![p].ret = {members[i]}]
                         /\ UNCHANGED idsIssued
    /\ UNCHANGED <<membersFile, meetingFiles, citiesCache, now, last>>

\* findMember lines 86-89 and findOrCreateMember lines 134-136: write the array
\* that holds the new id, return the record found
RaceFindSave(p) ==
    /\ procs[p].pc = "findSave"
    /\ membersFile' = saveMembers(procs[p].members)
    /\ procs' = [procs EXCEPT ![p].pc = "done", ![p].ret = procs[p].found]
    /\ UNCHANGED <<meetingFiles, citiesCache, now, idsIssued, last>>

\* lines 139-147: build the new member, read the file again
RaceCreateLoad(p) ==
    /\ procs[p].pc = "create"
    /\ procs' = [procs EXCEPT
            ![p].pc = "save",
            ![p].newMember = {[id |-> generateId(idsIssued),
                               name |-> procs[p].normalizedName,
                               city |-> procs[p].normalizedCity,
                               createdAt |-> now]},
            ![p].members = loadMembers(membersFile)]
    /\ idsIssued' = idsIssued + 1
    /\ UNCHANGED <<membersFile, meetingFiles, citiesCache, now, last>>

\* lines 148-151: push the new member, write the array, return the new member
RaceCreateSave(p) ==
    /\ procs[p].pc = "save"
    /\ \E newMember \in procs[p].newMember :
           membersFile' = saveMembers(Append(procs[p].members, newMember))
    /\ procs' = [procs EXCEPT ![p].pc = "done", ![p].created = TRUE,
                              ![p].ret = procs[p].newMember]
    /\ UNCHANGED <<meetingFiles, citiesCache, now, idsIssued, last>>

InitRace ==
    /\ membersFile \in InitialMemberFiles
    /\ meetingFiles = {}
    /\ citiesCache = <<>>
    /\ now = 0
    /\ idsIssued = 0
    /\ last = NoCall
    /\ procs = <<>>

NextRace ==
    \/ \E name \in RaceNameInputs, city \in RaceCityInputs : RaceCall(name, city)
    \/ \E p \in 1..Len(procs) : RaceFindLoad(p)
    \/ \E p \in 1..Len(procs) : RaceFindSave(p)
    \/ \E p \in 1..Len(procs) : RaceCreateLoad(p)
    \/ \E p \in 1..Len(procs) : RaceCreateSave(p)

SpecRace == InitRace /\ [][NextRace]_vars

\* calls p and q have both returned after both missing the dedup check on the
\* same (name, city) pair
BothMissed(p, q) ==
    /\ p # q
    /\ procs[p].pc = "done" /\ procs[p].created
    /\ procs[q].pc = "done" /\ procs[q].created
    /\ SameIgnoringCase(procs[p].normalizedName, procs[q].normalizedName)
    /\ SameIgnoringCase(procs[p].normalizedCity, procs[q].normalizedCity)

\* C5: two interleaved findOrCreate calls on the same fresh pair can both miss
\* the dedup check; they then return two records of that pair with two different
\* ids, and (witness) both records can be left in the registry.
C5_RaceCreatesTwo ==
    \A p, q \in 1..Len(procs) :
        BothMissed(p, q) =>
            /\ TheMember(procs[p].ret).id # TheMember(procs[q].ret).id
            /\ SamePair(TheMember(procs[p].ret), TheMember(procs[q].ret))

\* both calls missed, and the registry is left holding both of their records
C5_Witness ==
    \E p, q \in 1..Len(procs) :
        /\ BothMissed(p, q)
        /\ \E i, j \in 1..Len(membersFile) :
               /\ i # j
               /\ membersFile[i] \in procs[p].ret
               /\ membersFile[j] \in procs[q].ret
               /\ SamePair(membersFile[i], membersFile[j])
               /\ membersFile[i].id # membersFile[j].id

----------------------------------------------------------------------------
(* Meeting Registry: src/lib/meetings.ts *)

DigitChars == <<"0", "1", "2", "3", "4", "5", "6", "7", "8", "9">>

\* now.toISOString().split('T')[0]: the calendar date of the clock as
\* YYYY-MM-DD; the clock starts at the first instant of 2026-01-01
isoDate(clock) ==
    <<"2", "0", "2", "6", "-", "0", "1", "-", "0",
      DigitChars[(clock \div TicksPerDay) + 2]>>

\* what [a-z0-9] matches
SlugChars ==
    {"a", "b", "p", "q", "s"} \cup {DigitChars[i] : i \in 1..Len(DigitChars)}

\* the replacement made for every other character instead of every run of them
RECURSIVE replaceRuns_EachChar(_)
replaceRuns_EachChar(s) ==
    IF s = <<>> THEN <<>>
    ELSE IF Head(s) \in SlugChars THEN <<Head(s)>> \o replaceRuns_EachChar(Tail(s))
    ELSE <<"-">> \o replaceRuns_EachChar(Tail(s))

\* .replace(/[^a-z0-9]+/g, '-'): every maximal run of other characters becomes
\* one hyphen
RECURSIVE replaceRuns(_)
replaceRuns(s) ==
    IF s = <<>> THEN <<>>
    ELSE IF Head(s) \in SlugChars THEN <<Head(s)>> \o replaceRuns(Tail(s))
    ELSE IF Len(s) > 1 /\ s[2] \notin SlugChars THEN replaceRuns(Tail(s))
    ELSE <<"-">> \o replaceRuns(Tail(s))

\* .replace(/^-+|-+$/g, '')
RECURSIVE stripHyphens(_)
stripHyphens(s) ==
    IF s # <<>> /\ Head(s) = "-" THEN stripHyphens(Tail(s))
    ELSE IF s # <<>> /\ s[Len(s)] = "-" THEN stripHyphens(SubSeq(s, 1, Len(s) - 1))
    ELSE s

generateMeetingId(title, date) ==
    stripHyphens(replaceRuns(toLowerCase(title))) \o <<"-">> \o date

\* JSON.stringify(meeting, null, 2): the text of a file is modelled by the set
\* of values JSON.parse gives for it, none when the text is not JSON
stringifyMeeting(meeting) == {meeting}

\* a write that empties the directory before it writes the file
saveMeeting_ClearsDirectory(files, meeting) ==
    {[name |-> meeting.id, json |-> stringifyMeeting(meeting)]}

\* a write that fails silently when the file exists (flag 'wx')
saveMeeting_KeepsExisting(files, meeting) ==
    IF \E f \in files : f.name = meeting.id THEN files
    ELSE files \cup {[name |-> meeting.id, json |-> stringifyMeeting(meeting)]}

\* saveMeeting(meeting): the file named after the id is written, replacing the
\* one that was there
saveMeeting(files, meeting) ==
    {f \in files : f.name # meeting.id}
        \cup {[name |-> meeting.id, json |-> stringifyMeeting(meeting)]}

\* MeetingSchema.parse succeeds on the record
validateMeeting(m) ==
    /\ Len(m.id) >= 1
    /\ Len(m.title) >= 1
    /\ Len(m.title) <= 200

\* fs.existsSync(filePath) for the file of the id
meetingFileExists(files, meetingId) == \E f \in files : f.name = meetingId

\* loadMeeting returning whatever the file parses to
loadMeeting_NoValidation(files, meetingId) ==
    UNION {f.json : f \in {g \in files : g.name = meetingId}}

\* loadMeeting(meetingId): {} is null; a missing file, a text that does not parse
\* and a value the schema rejects all give null
loadMeeting(files, meetingId) ==
    UNION {{m \in f.json : validateMeeting(m)} : f \in {g \in files : g.name = meetingId}}

\* createMeeting(title, participantIds) at the clock: the meeting it returns
createMeeting(clock, title, participantIds) ==
    [id |-> generateMeetingId(title, isoDate(clock)),
     title |-> title,
     date |-> isoDate(clock),
     participantIds |-> participantIds,
     createdAt |-> clock]

\* new Date(date).getTime() of a YYYY-MM-DD date, in days since the clock started
dateTime(date) == CHOOSE d \in 0..8 : isoDate(d * TicksPerDay) = date

\* the comparator with its operands exchanged: oldest first
RECURSIVE insertByDate_Ascending(_, _)
insertByDate_Ascending(sorted, meeting) ==
    IF sorted = <<>> THEN <<meeting>>
    ELSE IF dateTime(Head(sorted).date) <= dateTime(meeting.date)
         THEN <<Head(sorted)>> \o insertByDate_Ascending(Tail(sorted), meeting)
         ELSE <<meeting>> \o sorted

\* Array.prototype.sort places a record of a stable sort by date, most recent
\* first: after the records that are not older than it
RECURSIVE insertByDate(_, _)
insertByDate(sorted, meeting) ==
    IF sorted = <<>> THEN <<meeting>>
    ELSE IF dateTime(Head(sorted).date) >= dateTime(meeting.date)
         THEN <<Head(sorted)>> \o insertByDate(Tail(sorted), meeting)
         ELSE <<meeting>> \o sorted

RECURSIVE sortByDate(_)
sortByDate(meetings) ==
    IF meetings = <<>> THEN <<>>
    ELSE insertByDate(sortByDate(SubSeq(meetings, 1, Len(meetings) - 1)),
                      meetings[Len(meetings)])

\* the for loop of listMeetings over the file names in the order readdirSync
\* gave them
RECURSIVE loadEach(_, _)
loadEach(files, names) ==
    IF names = <<>> THEN <<>>
    ELSE (IF loadMeeting(files, Head(names)) = {} THEN <<>>
          ELSE <<CHOOSE m \in loadMeeting(files, Head(names)) : TRUE>>)
         \o loadEach(files, Tail(names))

\* listMeetings() when readdirSync lists the files in the order of names
listMeetings(files, names) == sortByDate(loadEach(files, names))

\* the orders readdirSync may list the directory in
readdirOrders(files) ==
    LET names == {f.name : f \in files}
    IN  {order \in [1..Cardinality(names) -> names] :
            \A i, j \in 1..Cardinality(names) : order[i] = order[j] => i = j}

\* deleteMeeting reporting a removal it does not perform
deleteMeeting_KeepsFile(files, meetingId) ==
    [ret |-> meetingFileExists(files, meetingId), files |-> files]

\* deleteMeeting(meetingId): what it returns and the directory afterwards
deleteMeeting(files, meetingId) ==
    [ret |-> meetingFileExists(files, meetingId),
     files |-> {f \in files : f.name # meetingId}]

----------------------------------------------------------------------------
(* POST /api/meetings: src/app/api/meetings/route.ts *)

\* CreateMeetingInputSchema.parse succeeds on the body
validateCreateMeetingInput(title, participants) ==
    /\ Len(title) >= 1
    /\ Len(title) <= 200
    /\ Len(participants) >= 1
    /\ \A i \in 1..Len(participants) :
           /\ participants[i].name # Undefined /\ Len(participants[i].name) >= 1
           /\ participants[i].city # Undefined /\ Len(participants[i].city) >= 1

\* the loop taking every participant for a new member: the id collected is the
\* next id of the generator, not the id of the member returned
RECURSIVE addParticipants_AssumesNew(_, _, _, _)
addParticipants_AssumesNew(participants, i, clock, acc) ==
    IF i > Len(participants) THEN acc
    ELSE LET r == findOrCreateMember(acc.file, acc.issued, clock,
                                     participants[i].name, participants[i].city)
         IN  addParticipants_AssumesNew(participants, i + 1, clock,
                IF r.threw
                THEN [acc EXCEPT !.warnings =
                        Append(@, [participant |-> participants[i].name,
                                   error |-> "Name and city are required"])]
                ELSE [file |-> r.file, issued |-> r.issued,
                      memberIds |-> Append(acc.memberIds, generateId(acc.issued)),
                      warnings |-> acc.warnings])

\* the loop dropping a participant whose find-or-create fails without a warning
RECURSIVE addParticipants_NoWarning(_, _, _, _)
addParticipants_NoWarning(participants, i, clock, acc) ==
    IF i > Len(participants) THEN acc
    ELSE LET r == findOrCreateMember(acc.file, acc.issued, clock,
                                     participants[i].name, participants[i].city)
         IN  addParticipants_NoWarning(participants, i + 1, clock,
                IF r.threw THEN acc
                ELSE [file |-> r.file, issued |-> r.issued,
                      memberIds |-> Append(acc.memberIds, (CHOOSE m \in r.ret : TRUE).id),
                      warnings |-> acc.warnings])

\* the for loop over the participants from participant i on; acc holds the
\* member file, the ids issued, memberIds and warnings so far
RECURSIVE addParticipants(_, _, _, _)
addParticipants(participants, i, clock, acc) ==
    IF i > Len(participants) THEN acc
    ELSE LET r == findOrCreateMember(acc.file, acc.issued, clock,
                                     participants[i].name, participants[i].city)
         IN  addParticipants(participants, i + 1, clock,
                IF r.threw
                THEN [acc EXCEPT !.warnings =
                        Append(@, [participant |-> participants[i].name,
                                   error |-> "Name and city are required"])]
                ELSE IF \E m \in r.ret : m.id = NoId
                THEN [acc EXCEPT !.file = r.file, !.issued = r.issued,
                                 !.warnings =
                        Append(@, [participant |-> participants[i].name,
                                   error |-> "has no ID"])]
                ELSE [file |-> r.file, issued |-> r.issued,
                      memberIds |-> Append(acc.memberIds, (CHOOSE m \in r.ret : TRUE).id),
                      warnings |-> acc.warnings])

----------------------------------------------------------------------------
(* GET /api/meetings/[id]/visualization *)

\* the callback of members.map: the point of the member, none (null, filtered
\* out afterwards) when its city has no coordinates
memberPoint(cache, member) ==
    LET coords == cityCoordinates(cache, member.city)
    IN  IF coords = {} THEN <<>>
        ELSE LET c == CHOOSE x \in coords : TRUE
             IN  <<[memberId |-> member.id, memberName |-> member.name,
                    cityName |-> member.city, lat |-> c.lat, lng |-> c.lng]>>

\* the points collected last member first
RECURSIVE computePoints_Reversed(_, _)
computePoints_Reversed(cache, members) ==
    IF members = <<>> THEN <<>>
    ELSE computePoints_Reversed(cache, Tail(members)) \o memberPoint(cache, Head(members))

\* members.map(member => coords ? point : null).filter(p => p !== null)
RECURSIVE computePoints(_, _)
computePoints(cache, members) ==
    IF members = <<>> THEN <<>>
    ELSE memberPoint(cache, Head(members)) \o computePoints(cache, Tail(members))

\* an arc drawn from the second point to the first
arcBetween_Swapped(pointI, pointJ) ==
    [startLat |-> pointJ.lat, startLng |-> pointJ.lng,
     endLat |-> pointI.lat, endLng |-> pointI.lng]

arcBetween(pointI, pointJ) ==
    [startLat |-> pointI.lat, startLng |-> pointI.lng,
     endLat |-> pointJ.lat, endLng |-> pointJ.lng]

\* the two nested for loops, at indices i and j (counted from 1)
RECURSIVE arcsLoop(_, _, _, _)
arcsLoop(points, i, j, arcs) ==
    IF i > Len(points) THEN arcs
    ELSE IF j > Len(points) THEN arcsLoop(points, i + 1, i + 2, arcs)
    ELSE arcsLoop(points, i, j + 1, Append(arcs, arcBetween(points[i], points[j])))

\* the loops with the first inner loop starting at the point itself
computeArcs_SelfPair(points) == arcsLoop(points, 1, 1, <<>>)

computeArcs(points) == arcsLoop(points, 1, 2, <<>>)

----------------------------------------------------------------------------
(* The core called sequentially: requests are served one at a time *)

\* the participants of the requests: one whose city resolves to the two-word
\* entry, one whose city resolves to the one-word entry, one whose city is not
\* in the dataset, and one whose name is blank
ResolvingParticipant == [name |-> <<"a">>, city |-> <<"p", " ", "q">>]
OtherResolvingParticipant == [name |-> <<" ", "A">>, city |-> <<"p">>]
UnresolvedParticipant == [name |-> <<"b">>, city |-> <<"q">>]
BlankParticipant == [name |-> <<" ">>, city |-> <<"p">>]

ParticipantInputs ==
    { ResolvingParticipant, OtherResolvingParticipant, UnresolvedParticipant,
      BlankParticipant }

\* the participant lists of the requests
ParticipantLists ==
    { l \in { <<>>,
              <<ResolvingParticipant>>,
              <<ResolvingParticipant, UnresolvedParticipant>>,
              <<BlankParticipant, UnresolvedParticipant>>,
              <<ResolvingParticipant, OtherResolvingParticipant, ResolvingParticipant>> } :
        Len(l) <= MaxParticipants }

TitleInputs == { <<"S">>, <<"s", "!">>, <<>> }

\* the ids asked for: those of the stored meetings and one that is not stored
MeetingIdInputs == {f.name : f \in meetingFiles} \cup {<<"x">>}

CityLookupInputs == { <<"p", " ", "q">>, <<"p", "q">>, <<" ", "P">>, <<"q">> }

PostMeetings(title, participants) ==
    IF ~validateCreateMeetingInput(title, participants)
    THEN /\ last' = [op |-> "POST meetings", title |-> title,
                     participants |-> participants, status |-> 400]
         /\ UNCHANGED <<membersFile, meetingFiles, citiesCache, now, idsIssued, procs>>
    ELSE \E r \in {addParticipants(participants, 1, now,
                       [file |-> membersFile, issued |-> idsIssued,
                        memberIds |-> <<>>, warnings |-> <<>>])} :
         \E meeting \in {createMeeting(now, title, r.memberIds)} :
            /\ Len(r.file) <= MaxMembers
            /\ membersFile' = r.file
            /\ idsIssued' = r.issued
            /\ meetingFiles' = saveMeeting(meetingFiles, meeting)
            /\ last' = [op |-> "POST meetings", title |-> title,
                        participants |-> participants, status |-> 200,
                        meeting |-> meeting, warnings |-> r.warnings]
            /\ UNCHANGED <<citiesCache, now, procs>>

\* the body of the GET handler for the id: the response and the city cache
\* after it
computeVisualization(files, file, cache, id) ==
    IF loadMeeting(files, id) = {}
    THEN [response |-> [op |-> "GET visualization", id |-> id, status |-> 404],
          cache |-> cache]
    ELSE LET meeting == CHOOSE m \in loadMeeting(files, id) : TRUE
             members == getMembersByIds(file, meeting.participantIds)
             populated == IF members = <<>> THEN cache ELSE initializeCitiesCache(cache)
             points == computePoints(populated, members)
         IN  [response |-> [op |-> "GET visualization", id |-> id, status |-> 200,
                            meeting |-> [id |-> meeting.id, title |-> meeting.title,
                                         date |-> meeting.date],
                            points |-> points, arcs |-> computeArcs(points)],
              cache |-> populated]

\* a handler that answers with the points and arcs of the visualization
\* computed by the call before, when there is one
getVisualization_Memoized(files, file, cache, id, earlier) ==
    IF earlier.op = "GET visualization" /\ earlier.status = 200
    THEN [response |-> [earlier EXCEPT !.id = id], cache |-> cache]
    ELSE computeVisualization(files, file, cache, id)

\* GET /api/meetings/[id]/visualization served after the call whose response
\* was earlier: the handler keeps nothing of the calls before it, every
\* response is computed from the files
getVisualization(files, file, cache, id, earlier) ==
    computeVisualization(files, file, cache, id)

GetVisualization(id) ==
    \E r \in {getVisualization(meetingFiles, membersFile, citiesCache, id, last)} :
        /\ citiesCache' = r.cache
        /\ last' = r.response
        /\ UNCHANGED <<membersFile, meetingFiles, now, idsIssued, procs>>

Init ==
    /\ membersFile \in InitialMemberFiles
    /\ meetingFiles = {}
    /\ citiesCache = <<>>
    /\ now = 0
    /\ idsIssued = 0
    /\ last = NoCall
    /\ procs = <<>>

Next ==
    \/ Tick
    \/ \E p \in ParticipantInputs : FindOrCreateMember(p.name, p.city)
    \/ \E title \in TitleInputs, participants \in ParticipantLists :
           PostMeetings(title, participants)
    \/ \E id \in MeetingIdInputs : GetVisualization(id)
    \/ \E cityName \in CityLookupInputs : GetCityCoordinates(cityName)

Spec == Init /\ [][Next]_vars

----------------------------------------------------------------------------
(* The visualization contract *)

MemberFields == {"id", "name", "city", "createdAt"}

MeetingFields == {"id", "title", "date", "participantIds", "createdAt"}

VisualizationComputed == last.op = "GET visualization" /\ last.status = 200

\* the stored meeting the last visualization was computed for
VisualizedMeeting == CHOOSE m \in loadMeeting(meetingFiles, last.id) : TRUE

\* the member records with the id
MembersWithId(id) ==
    {membersFile[i] : i \in {j \in 1..Len(membersFile) : membersFile[j].id = id}}

\* every participant of the meeting is a member whose city is in the dataset
AllResolve(meeting) ==
    \A k \in 1..Len(meeting.participantIds) :
        /\ MembersWithId(meeting.participantIds[k]) # {}
        /\ \A m \in MembersWithId(meeting.participantIds[k]) :
               DatasetCoordinates(m.city) # {}

\* C9: no synthetic coordinate is produced. What getCityCoordinates returns is
\* the coordinate pair of the dataset entry whose normalizedName is the
\* lower-cased, trimmed city name, and not-found when there is none; every
\* point of a visualization belongs to a member and carries the dataset
\* coordinates of that member's city; and the member and meeting records hold
\* no coordinate field.
C9_NoSyntheticCoordinate ==
    /\ last.op = "getCityCoordinates" =>
           /\ last.ret \subseteq DatasetCoordinates(last.cityName)
           /\ DatasetEntries(last.cityName) = {} => last.ret = {}
    /\ VisualizationComputed =>
           \A k \in 1..Len(last.points) :
               /\ \E m \in MembersWithId(last.points[k].memberId) :
                      m.city = last.points[k].cityName
               /\ [lat |-> last.points[k].lat, lng |-> last.points[k].lng]
                      \in DatasetCoordinates(last.points[k].cityName)
    /\ \A i \in 1..Len(membersFile) : DOMAIN membersFile[i] = MemberFields
    /\ \A f \in meetingFiles : \A m \in f.json : DOMAIN m = MeetingFields

\* a meeting of two participants, one of them from a city that is not in the
\* dataset, has been visualized: one point, none for the unresolved member
C9_Witness ==
    /\ VisualizationComputed
    /\ Len(VisualizedMeeting.participantIds) = 2
    /\ \E k \in 1..2 : \E m \in MembersWithId(VisualizedMeeting.participantIds[k]) :
           DatasetCoordinates(m.city) = {}
    /\ Len(last.points) = 1

\* C10: every visualization computed has n(n-1)/2 arcs, n the number of its
\* points, and a meeting whose n participants all resolve has n points, hence
\* n(n-1)/2 arcs.
C10_ArcCount ==
    VisualizationComputed =>
        /\ 2 * Len(last.arcs) = Len(last.points) * (Len(last.points) - 1)
        /\ AllResolve(VisualizedMeeting) =>
               /\ Len(last.points) = Len(VisualizedMeeting.participantIds)
               /\ 2 * Len(last.arcs) =
                      Len(VisualizedMeeting.participantIds)
                          * (Len(VisualizedMeeting.participantIds) - 1)

\* a meeting of three participants that all resolve has been visualized
C10_Witness ==
    /\ VisualizationComputed
    /\ AllResolve(VisualizedMeeting)
    /\ Len(VisualizedMeeting.participantIds) = 3
    /\ Len(last.points) = 3
    /\ Len(last.arcs) = 3

----------------------------------------------------------------------------
(* The Meeting Registry and the visualization over a registry of three members *)

\* an id that no member has
UnknownId == 9

\* members.json after findOrCreateMember("a", "p q"), ("b", "q"), ("s", "p")
RosterRegistry ==
    << [id |-> 1, name |-> <<"A">>, city |-> <<"P", " ", "Q">>, createdAt |-> 0],
       [id |-> 2, name |-> <<"B">>, city |-> <<"Q">>, createdAt |-> 0],
       [id |-> 3, name |-> <<"S">>, city |-> <<"P">>, createdAt |-> 0] >>

\* the participantIds of the meetings created
ParticipantIdInputs == { <<3, UnknownId, 2, 1>>, <<1, 1>> }

\* a file of the directory whose text is not JSON
CorruptFile == [name |-> <<"c">>, json |-> {}]

InitialMeetingDirs == { {}, {CorruptFile} }

\* the clock reaches the first instant of the next calendar day
NextDay ==
    /\ now \div TicksPerDay < MaxDay
    /\ now' = ((now \div TicksPerDay) + 1) * TicksPerDay
    /\ UNCHANGED <<membersFile, meetingFiles, citiesCache, idsIssued, last, procs>>

CreateMeeting(title, participantIds) ==
    \E meeting \in {createMeeting(now, title, participantIds)} :
        /\ Cardinality(saveMeeting(meetingFiles, meeting) \ {CorruptFile}) <= MaxMeetings
        /\ meetingFiles' = saveMeeting(meetingFiles, meeting)
        /\ last' = [op |-> "createMeeting", title |-> title,
                    participantIds |-> participantIds, ret |-> meeting,
                    before |-> meetingFiles]
        /\ UNCHANGED <<membersFile, citiesCache, now, idsIssued, procs>>

LoadMeeting(id) ==
    /\ last' = [op |-> "loadMeeting", id |-> id, ret |-> loadMeeting(meetingFiles, id)]
    /\ UNCHANGED <<membersFile, meetingFiles, citiesCache, now, idsIssued, procs>>

DeleteMeeting(id) ==
    \E r \in {deleteMeeting(meetingFiles, id)} :
        /\ meetingFiles' = r.files
        /\ last' = [op |-> "deleteMeeting", id |-> id, ret |-> r.ret,
                    before |-> meetingFiles]
        /\ UNCHANGED <<membersFile, citiesCache, now, idsIssued, procs>>

ListMeetings ==
    \E names \in readdirOrders(meetingFiles) :
        /\ last' = [op |-> "listMeetings", ret |-> listMeetings(meetingFiles, names)]
        /\ UNCHANGED <<membersFile, meetingFiles, citiesCache, now, idsIssued, procs>>

GetMembersByIds(ids) ==
    /\ last' = [op |-> "getMembersByIds", ids |-> ids,
                ret |-> getMembersByIds(membersFile, ids)]
    /\ UNCHANGED <<membersFile, meetingFiles, citiesCache, now, idsIssued, procs>>

InitMeetings ==
    /\ membersFile = RosterRegistry
    /\ idsIssued = Len(RosterRegistry)
    /\ meetingFiles \in InitialMeetingDirs
    /\ citiesCache = <<>>
    /\ now = 0
    /\ last = NoCall
    /\ procs = <<>>

NextMeetings ==
    \/ NextDay
    \/ \E title \in TitleInputs, ids \in ParticipantIdInputs : CreateMeeting(title, ids)
    \/ \E id \in MeetingIdInputs : LoadMeeting(id)
    \/ \E id \in MeetingIdInputs : DeleteMeeting(id)
    \/ ListMeetings
    \/ \E id \in MeetingIdInputs : GetVisualization(id)

SpecMeetings == InitMeetings /\ [][NextMeetings]_vars

----------------------------------------------------------------------------
(* The Meeting Registry and visualization contract *)

\* the positions of the participant ids that have a member in the registry
\* whose city is in the dataset
ResolvingPositions(participantIds) ==
    {k \in 1..Len(participantIds) :
        \E m \in MembersWithId(participantIds[k]) : DatasetCoordinates(m.city) # {}}

\* the n-th smallest element of a set of positions
NthPosition(positions, n) ==
    CHOOSE k \in positions : Cardinality({j \in positions : j < k}) = n - 1

\* C11: the points of a visualization are, in participantIds order, one entry
\* for each position of participantIds whose id has a member in the registry
\* with a city that resolves; unknown ids and members with an unresolved city
\* contribute none; each point carries that member's id, name and city and the
\* coordinates of the city.
C11_PointsInParticipantOrder ==
    VisualizationComputed =>
        LET participantIds == VisualizedMeeting.participantIds
            positions == ResolvingPositions(participantIds)
        IN  /\ Len(last.points) = Cardinality(positions)
            /\ \A n \in 1..Len(last.points) :
                   \E m \in MembersWithId(participantIds[NthPosition(positions, n)]) :
                       /\ last.points[n].memberId = m.id
                       /\ last.points[n].memberName = m.name
                       /\ last.points[n].cityName = m.city
                       /\ [lat |-> last.points[n].lat, lng |-> last.points[n].lng]
                              \in DatasetCoordinates(m.city)

\* a meeting listing member 3, an unknown id, member 2 (unresolved city) and
\* member 1 has been visualized: two points, member 3's first
C11_Witness ==
    /\ VisualizationComputed
    /\ VisualizedMeeting.participantIds = <<3, UnknownId, 2, 1>>
    /\ Len(last.points) = 2
    /\ last.points[1].memberId = 3
    /\ last.points[2].memberId = 1

----------------------------------------------------------------------------
(* The createMeeting contract: POST /api/meetings *)

MeetingCreated == last.op = "POST meetings" /\ last.status = 200

\* text occurs in s
OccursIn(text, s) ==
    \E i \in 1..(Len(s) - Len(text) + 1) : SubSeq(s, i, i + Len(text) - 1) = text

\* the warning `Failed to add participant ${name}: ${message}` names the text:
\* the participant's name is its only part taken from the request
WarningNames(warning, text) == text # <<>> /\ OccursIn(text, warning.participant)

\* C12: when a participant's city has no entry in the dataset, the meeting is
\* still created and stored, the warnings returned name that city, and no
\* visualization has a point for a city without an entry.
C12_UnresolvedCityWarned ==
    /\ MeetingCreated =>
           /\ loadMeeting(meetingFiles, last.meeting.id) = {last.meeting}
           /\ \A i \in 1..Len(last.participants) :
                  DatasetCoordinates(last.participants[i].city) = {} =>
                      \E k \in 1..Len(last.warnings) :
                          WarningNames(last.warnings[k], last.participants[i].city)
    /\ VisualizationComputed =>
           \A n \in 1..Len(last.points) :
               DatasetCoordinates(last.points[n].cityName) # {}

\* the request body passes the schema: a title of 1 to 200 characters and at
\* least one participant, each with a non-empty name and city
SchemaValid(title, participants) ==
    /\ Len(title) \in 1..200
    /\ participants # <<>>
    /\ \A i \in 1..Len(participants) :
           /\ participants[i].name \notin {Undefined, <<>>}
           /\ participants[i].city \notin {Undefined, <<>>}

\* the positions of the participants whose find-or-create fails: a name or a
\* city that is blank
FailingPositions(participants) ==
    {i \in 1..Len(participants) :
        IsBlank(participants[i].name) \/ IsBlank(participants[i].city)}

\* C13: on schema-valid input createMeeting always creates and stores a
\* meeting: every participant either contributes its member's id to
\* participantIds, in request order, or, when its find-or-create fails, one
\* warning that names it, so |participantIds| + |warnings| = |participants|.
C13_PartialFailuresCollected ==
    last.op = "POST meetings" =>
        /\ SchemaValid(last.title, last.participants) <=> last.status = 200
        /\ last.status = 200 =>
               LET failing == FailingPositions(last.participants)
                   passing == (1..Len(last.participants)) \ failing
               IN  /\ loadMeeting(meetingFiles, last.meeting.id) = {last.meeting}
                   /\ Len(last.meeting.participantIds) + Len(last.warnings)
                          = Len(last.participants)
                   /\ Len(last.warnings) = Cardinality(failing)
                   /\ \A n \in 1..Len(last.warnings) :
                          WarningNames(last.warnings[n],
                              last.participants[NthPosition(failing, n)].name)
                   /\ \A n \in 1..Len(last.meeting.participantIds) :
                          \E m \in MembersWithId(last.meeting.participantIds[n]) :
                              /\ DifferOnlyInCaseAndSpace(m.name,
                                     last.participants[NthPosition(passing, n)].name)
                              /\ DifferOnlyInCaseAndSpace(m.city,
                                     last.participants[NthPosition(passing, n)].city)

\* a meeting has been created from a request whose first participant has a
\* blank name: one warning, and the id of the participant after it
C13_Witness ==
    /\ MeetingCreated
    /\ Len(last.participants) = 2
    /\ FailingPositions(last.participants) = {1}
    /\ Len(last.meeting.participantIds) = 1
    /\ Len(last.warnings) = 1

----------------------------------------------------------------------------
(* The Meeting Registry contract *)

\* C14: round trip: right after create(title, ids) has returned a meeting, load
\* of its id returns a record equal to it: same id, title, date, participantIds
\* (order and duplicates kept) and createdAt.
C14_RoundTrip ==
    last.op = "createMeeting" => loadMeeting(meetingFiles, last.ret.id) = {last.ret}

\* the ids of the calls and of the files
MeetingIds(files) == {f.name : f \in files} \cup {<<"x">>}

\* C15: delete(id) returns true and removes the record when one is stored under
\* id, and returns false and leaves the store as it was when none is;
\* afterwards load(id) is not-found and every other stored meeting is as before.
C15_DeleteRemoves ==
    last.op = "deleteMeeting" =>
        LET stored == {f \in last.before : f.name = last.id}
        IN  /\ last.ret = (stored # {})
            /\ meetingFiles = last.before \ stored
            /\ ~last.ret => meetingFiles = last.before
            /\ loadMeeting(meetingFiles, last.id) = {}
            /\ \A other \in MeetingIds(last.before) \ {last.id} :
                   loadMeeting(meetingFiles, other) = loadMeeting(last.before, other)

\* a stored, loadable meeting has been deleted while another one stays stored
C15_Witness ==
    /\ last.op = "deleteMeeting"
    /\ last.ret
    /\ loadMeeting(last.before, last.id) # {}
    /\ \E f \in meetingFiles : loadMeeting(meetingFiles, f.name) # {}

----------------------------------------------------------------------------
(* createMeeting called once, on an empty directory, with any title *)

TitleAlphabet == {"s", "S", "0", "!", "-", SharpS}

TitleTexts == Strings(TitleAlphabet, MaxTitleLen)

InitSlug ==
    /\ membersFile = <<>>
    /\ meetingFiles = {}
    /\ citiesCache = <<>>
    /\ now \in {day * TicksPerDay : day \in 0..MaxDay}
    /\ idsIssued = 0
    /\ last = NoCall
    /\ procs = <<>>

NextSlug ==
    \E title \in TitleTexts : meetingFiles = {} /\ CreateMeeting(title, <<>>)

SpecSlug == InitSlug /\ [][NextSlug]_vars

\* ---- what the contract says of the id, stated on positions of the title ----

AsciiAlphanumeric ==
    {"a", "b", "p", "q", "s", "0", "1", "2", "3", "4", "5", "6", "7", "8", "9"}

\* where a run of alphanumeric characters starts
RunStarts(s) ==
    {i \in 1..Len(s) :
        s[i] \in AsciiAlphanumeric /\ (i = 1 \/ s[i - 1] \notin AsciiAlphanumeric)}

\* the run of alphanumeric characters that starts at i
RunAt(s, i) ==
    SubSeq(s, i, CHOOSE j \in i..Len(s) :
                     /\ \A k \in i..j : s[k] \in AsciiAlphanumeric
                     /\ (j = Len(s) \/ s[j + 1] \notin AsciiAlphanumeric))

\* the runs from the n-th on, joined by single hyphens
RECURSIVE JoinRuns(_, _)
JoinRuns(s, n) ==
    IF n > Cardinality(RunStarts(s)) THEN <<>>
    ELSE (IF n > 1 THEN <<"-">> ELSE <<>>)
         \o RunAt(s, NthPosition(RunStarts(s), n)) \o JoinRuns(s, n + 1)

\* the slug of a title: its alphanumeric runs, lower-cased, joined by hyphens
SlugOf(title) == JoinRuns(toLowerCase(title), 1)

IsCalendarDate(date) ==
    /\ Len(date) = 10
    /\ \A i \in {5, 8} : date[i] = "-"
    /\ \A i \in (1..10) \ {5, 8} : \E d \in 1..10 : date[i] = DigitChars[d]

\* C16: create assigns id = slug + "-" + date, slug being the title lower-cased
\* with every run of non-alphanumeric characters made one hyphen and the
\* leading and trailing hyphens removed, date the calendar date of the clock as
\* YYYY-MM-DD, stored as the record's date too; the id holds only a-z, 0-9 and
\* hyphens.
C16_IdIsSlugAndDate ==
    last.op = "createMeeting" =>
        /\ last.ret.id = SlugOf(last.title) \o <<"-">> \o last.ret.date
        /\ IsCalendarDate(last.ret.date)
        /\ dateTime(last.ret.date) = now \div TicksPerDay
        /\ \A i \in 1..Len(last.ret.id) :
               last.ret.id[i] \in AsciiAlphanumeric \cup {"-"}

\* a title with a capital and a run of two other characters inside has been
\* given its id
C16_Witness ==
    /\ last.op = "createMeeting"
    /\ last.title = <<"S", "!", "-", "0">>
    /\ last.ret.id = <<"s", "-", "0", "-"
                      , "2", "0", "2", "6", "-", "0", "1", "-", "0", "1">>

\* the records list() has to return: the stored ones that pass validation
ValidStored(files) == UNION {loadMeeting(files, f.name) : f \in files}

\* C17: list() returns every stored meeting that passes validation, each once,
\* most recent date first; a file that does not parse or a record that is not
\* valid is left out and list() still returns.
C17_ListValidByDate ==
    last.op = "listMeetings" =>
        /\ {last.ret[i] : i \in 1..Len(last.ret)} = ValidStored(meetingFiles)
        /\ Len(last.ret) = Cardinality(ValidStored(meetingFiles))
        /\ \A i \in 1..(Len(last.ret) - 1) :
               dateTime(last.ret[i].date) >= dateTime(last.ret[i + 1].date)

\* two meetings of different dates have been listed from a directory that also
\* holds a file that does not parse
C17_Witness ==
    /\ last.op = "listMeetings"
    /\ CorruptFile \in meetingFiles
    /\ Len(last.ret) = 2
    /\ last.ret[1].date # last.ret[2].date

\* the record has the structure of a meeting: an id and a title of 1 to 200
\* characters
StructurallyValid(m) == m.id # <<>> /\ Len(m.title) \in 1..200

\* the records stored under the id that parse and are structurally valid
ReadableUnder(files, id) ==
    {m \in UNION {f.json : f \in {g \in files : g.name = id}} : StructurallyValid(m)}

\* C18: a missing or invalid meeting is a not-found result and never an
\* exception: load(id) returns not-found when no record is stored under id,
\* when the stored text does not parse and when the record is structurally
\* invalid, and the record otherwise; getVisualization(id) answers not-found in
\* those cases, with no points and no arcs.
C18_InvalidIsNotFound ==
    /\ last.op = "loadMeeting" => last.ret = ReadableUnder(meetingFiles, last.id)
    /\ last.op = "GET visualization" =>
           /\ last.status \in {200, 404}
           /\ last.status = 404 <=> ReadableUnder(meetingFiles, last.id) = {}
           /\ last.status = 404 => DOMAIN last = {"op", "id", "status"}

\* the visualization of a meeting whose stored record has an empty title has
\* been asked for and answered not-found
C18_Witness ==
    /\ last.op = "GET visualization"
    /\ last.status = 404
    /\ \E f \in meetingFiles :
           f.name = last.id /\ \E m \in f.json : ~StructurallyValid(m)

----------------------------------------------------------------------------
(* findOrCreateMember when reads and writes of members.json can fail *)

\* which file system calls of one findOrCreateMember call fail: the read of
\* findMember's loadMembers, the read of the loadMembers before the push, and
\* the write of saveMembers (the file cannot be opened and keeps its content)
IoOutcomes == [readInFind : BOOLEAN, readBeforePush : BOOLEAN, write : BOOLEAN]

\* loadMembers(): readFileSync or JSON.parse throwing is caught and [] returned
loadMembersIO(file, readFails) == IF readFails THEN <<>> ELSE loadMembers(file)

\* findOrCreateMember(name, city) under the outcomes io: whether it threw, the
\* member returned, whether a file system call it made failed, and the file and
\* the ids issued after it
findOrCreateMemberIO(file, issued, clock, name, city, io) ==
    LET normalizedName == normalizeInput(name)
        normalizedCity == normalizeInput(city)
        members == loadMembersIO(file, io.readInFind)
        at == findIndex(members, normalizedName, normalizedCity)
    IN  IF normalizedName = <<>> \/ normalizedCity = <<>>
        THEN [threw |-> TRUE, ret |-> {}, failed |-> FALSE,
              file |-> file, issued |-> issued]
        ELSE IF at # {}
        THEN LET i == CHOOSE k \in at : TRUE
                 fixed == [members EXCEPT ![i].id = generateId(issued)]
             IN  IF members[i].id # NoId
                 THEN [threw |-> FALSE, ret |-> {members[i]}, failed |-> FALSE,
                       file |-> file, issued |-> issued]
                 ELSE IF io.write
                 THEN [threw |-> TRUE, ret |-> {}, failed |-> TRUE,
                       file |-> file, issued |-> issued + 1]
                 ELSE [threw |-> FALSE, ret |-> {fixed[i]}, failed |-> FALSE,
                       file |-> saveMembers(fixed), issued |-> issued + 1]
        ELSE LET newMember == [id |-> generateId(issued),
                               name |-> normalizedName,
                               city |-> normalizedCity,
                               createdAt |-> clock]
                 reread == loadMembersIO(file, io.readBeforePush)
             IN  IF io.write
                 THEN [threw |-> TRUE, ret |-> {}, failed |-> TRUE,
                       file |-> file, issued |-> issued + 1]
                 ELSE [threw |-> FALSE, ret |-> {newMember},
                       failed |-> io.readInFind \/ io.readBeforePush,
                       file |-> saveMembers(Append(reread, newMember)),
                       issued |-> issued + 1]

FindOrCreateMemberIO(name, city, io) ==
    \E r \in {findOrCreateMemberIO(membersFile, idsIssued, now, name, city, io)} :
        /\ Len(r.file) <= MaxMembers
        /\ r.issued <= MaxIds
        /\ membersFile' = r.file
        /\ idsIssued' = r.issued
        /\ last' = [op |-> "findOrCreateMemberIO", name |-> name, city |-> city,
                    io |-> io, threw |-> r.threw, ret |-> r.ret,
                    failed |-> r.failed, before |-> membersFile]
        /\ UNCHANGED <<meetingFiles, citiesCache, now, procs>>

InitPersist == InitMembers

NextPersist ==
    \E name \in RaceNameInputs \cup {<<"b">>, <<" ">>}, city \in RaceCityInputs,
       io \in IoOutcomes :
        FindOrCreateMemberIO(name, city, io)

SpecPersist == InitPersist /\ [][NextPersist]_vars

\* C19: when a read or a write of the member collection fails during
\* findOrCreate, the call fails too, and the collection holds the records it
\* held before the call.
C19_FailurePropagates ==
    (last.op = "findOrCreateMemberIO" /\ last.failed) =>
        /\ last.threw
        /\ membersFile = last.before

----------------------------------------------------------------------------
(* getMembersByIds called on a registry *)

InitialRosters == { <<>>, RosterRegistry, <<LegacyMember>> \o RosterRegistry }

\* the lists of ids asked for: ids of members and an id no member has
IdLists == Strings({1, 2, 3, UnknownId}, MaxIdsAsked)

InitRoster ==
    /\ membersFile \in InitialRosters
    /\ meetingFiles = {}
    /\ citiesCache = <<>>
    /\ now = 0
    /\ idsIssued = Len(RosterRegistry)
    /\ last = NoCall
    /\ procs = <<>>

NextRoster == \E ids \in IdLists : GetMembersByIds(ids)

SpecRoster == InitRoster /\ [][NextRoster]_vars

\* the positions of ids that match a record of the registry
MatchingPositions(ids) == {k \in 1..Len(ids) : MembersWithId(ids[k]) # {}}

\* C20: getByIds(ids) returns, in the order of ids, the member of every
\* position of ids that matches a registry record and nothing for the other
\* positions: it is never longer than ids and is empty when no id matches.
C20_GetByIdsOmitsUnknown ==
    last.op = "getMembersByIds" =>
        /\ Len(last.ret) = Cardinality(MatchingPositions(last.ids))
        /\ \A n \in 1..Len(last.ret) :
               last.ret[n] \in
                   MembersWithId(last.ids[NthPosition(MatchingPositions(last.ids), n)])
        /\ Len(last.ret) <= Len(last.ids)
        /\ MatchingPositions(last.ids) = {} => last.ret = <<>>

\* member 3, an unknown id and member 1 have been asked for, in that order
C20_Witness ==
    /\ last.op = "getMembersByIds"
    /\ last.ids = <<3, UnknownId, 1>>
    /\ Len(last.ret) = 2
    /\ last.ret[1].id = 3
    /\ last.ret[2].id = 1

----------------------------------------------------------------------------
(* The visualization as a function of the stored data *)

\* the index pairs i < j of n points
IndexPairs(n) == {pair \in (1..n) \X (1..n) : pair[1] < pair[2]}

\* the place of the pair in increasing (i, j) order
PairRank(n, pair) ==
    Cardinality({q \in IndexPairs(n) :
                    q[1] < pair[1] \/ (q[1] = pair[1] /\ q[2] < pair[2])}) + 1

PairOfRank(n, r) == CHOOSE pair \in IndexPairs(n) : PairRank(n, pair) = r

\* the arcs the contract asks for: the arc of every index pair, in increasing
\* (i, j) order
ExpectedArcs(points) ==
    [r \in 1..Cardinality(IndexPairs(Len(points))) |->
        LET pair == PairOfRank(Len(points), r)
        IN  [startLat |-> points[pair[1]].lat, startLng |-> points[pair[1]].lng,
             endLat |-> points[pair[2]].lat, endLng |-> points[pair[2]].lng]]

\* the points the contract asks for, from the registry and the dataset as they
\* are now
ExpectedPoints(participantIds) ==
    [n \in 1..Cardinality(ResolvingPositions(participantIds)) |->
        LET m == CHOOSE x \in MembersWithId(
                     participantIds[NthPosition(ResolvingPositions(participantIds), n)]) : TRUE
            c == CHOOSE x \in DatasetCoordinates(m.city) : TRUE
        IN  [memberId |-> m.id, memberName |-> m.name, cityName |-> m.city,
             lat |-> c.lat, lng |-> c.lng]]

\* C21: computeVisualization keeps no state between calls: the points and arcs
\* of every response are those of the meeting record, the member registry and
\* the city data as they are stored at the time of the call, and two calls for
\* the same meeting made one after the other return the same points and arcs.
C21_Stateless ==
    /\ [](VisualizationComputed =>
            /\ loadMeeting(meetingFiles, last.id) # {}
            /\ \A m \in loadMeeting(meetingFiles, last.id) :
                   /\ last.meeting = [id |-> m.id, title |-> m.title, date |-> m.date]
                   /\ last.points = ExpectedPoints(m.participantIds)
                   /\ last.arcs = ExpectedArcs(last.points))
    /\ [][ ( /\ VisualizationComputed
             /\ VisualizationComputed'
             /\ last'.id = last.id )
           => (last'.points = last.points /\ last'.arcs = last.arcs) ]_vars

\* a meeting stored after the clock has advanced, whose three participants all
\* resolve, has been visualized
C21_Witness ==
    /\ VisualizationComputed
    /\ \E m \in loadMeeting(meetingFiles, last.id) :
           m.createdAt > 0 /\ Len(m.participantIds) = 3
    /\ Len(last.points) = 3

\* C22: arcs holds one arc for every index pair i < j of points and nothing
\* else, in increasing (i, j) order; the arc of (i, j) starts at points[i] and
\* ends at points[j]; so no arc joins an index to itself and no pair of indices
\* has two arcs.
C22_OneArcPerPair ==
    VisualizationComputed =>
        /\ Len(last.arcs) = Cardinality(IndexPairs(Len(last.points)))
        /\ \A pair \in IndexPairs(Len(last.points)) :
               LET arc == last.arcs[PairRank(Len(last.points), pair)]
               IN  /\ arc.startLat = last.points[pair[1]].lat
                   /\ arc.startLng = last.points[pair[1]].lng
                   /\ arc.endLat = last.points[pair[2]].lat
                   /\ arc.endLng = last.points[pair[2]].lng

\* three points have been joined: the third arc runs from the second point to
\* the third
C22_Witness ==
    /\ VisualizationComputed
    /\ Len(last.points) = 3
    /\ last.points[2].cityName # last.points[3].cityName
    /\ Len(last.arcs) = 3
    /\ last.arcs[3] = [startLat |-> last.points[2].lat, startLng |-> last.points[2].lng,
                       endLat |-> last.points[3].lat, endLng |-> last.points[3].lng]

----------------------------------------------------------------------------
(* The City Resolver shared by the callers of one process. A resolver function
   is synchronous, so a call runs from its initializeCitiesCache() to its
   return as one step; the calls of different callers interleave in any
   order. procs[p] is the latest call of caller p. *)

ResolverOps == {"getCityByName", "getCityCoordinates", "cityExists", "getAllCities"}

\* what the call returns on the initialized cache
resolverResult(cache, op, cityName) ==
    CASE op = "getCityByName" -> cityByName(cache, cityName)
      [] op = "getCityCoordinates" -> cityCoordinates(cache, cityName)
      [] op = "cityExists" -> cityByName(cache, cityName) # {}
      [] op = "getAllCities" -> cache

ResolverCall(p, op, cityName) ==
    \E cache \in {initializeCitiesCache(citiesCache)} :
        /\ citiesCache' = cache
        /\ procs' = [procs EXCEPT ![p] = [op |-> op, cityName |-> cityName,
                                          ret |-> resolverResult(cache, op, cityName)]]
        /\ UNCHANGED <<membersFile, meetingFiles, now, idsIssued, last>>

InitCache ==
    /\ membersFile = <<>>
    /\ meetingFiles = {}
    /\ now = 0
    /\ idsIssued = 0
    /\ last = NoCall
    /\ citiesCache = <<>>
    /\ procs = [p \in 1..MaxProcs |-> NoCall]

NextCache ==
    \E p \in 1..MaxProcs : \E op \in ResolverOps : \E cityName \in CityLookupInputs :
        ResolverCall(p, op, cityName)

SpecCache == InitCache /\ [][NextCache]_vars

\* the cache after one population of an empty cache
PopulatedOnce == populateFrom(<<>>, 1)

\* C23: the first resolver call populates the cache from the dataset, and the
\* cache never changes after that: a step changes the cache only when the cache
\* is empty, so population runs at most once.
C23_PopulatedOnce ==
    /\ []((\E p \in 1..MaxProcs : procs[p] # NoCall) => citiesCache = PopulatedOnce)
    /\ []((\A p \in 1..MaxProcs : procs[p] = NoCall) => citiesCache = <<>>)
    /\ [][citiesCache' # citiesCache => (citiesCache = <<>> /\ citiesCache' # <<>>)]_vars

\* a list call has been answered after a resolve call of another caller
C23_Witness ==
    /\ procs[1].op = "getCityCoordinates"
    /\ procs[2].op = "getAllCities"
    /\ procs[2].ret = PopulatedOnce
    /\ Len(citiesCache) = Len(citiesData)

\* C24: with callers interleaved, the cache is empty or equal to the result of
\* one population, populating it again would not change it, and every resolve
\* call for a city of the dataset returns the dataset's entry or coordinates.
C24_ConcurrentFirstCallers ==
    /\ citiesCache \in {<<>>, PopulatedOnce}
    /\ populateFrom(citiesCache, 1) = PopulatedOnce
    /\ \A p \in 1..MaxProcs :
           (procs[p] # NoCall /\ DatasetEntries(procs[p].cityName) # {}) =>
               /\ procs[p].op = "getCityByName" => procs[p].ret = DatasetEntries(procs[p].cityName)
               /\ procs[p].op = "getCityCoordinates" =>
                      procs[p].ret = DatasetCoordinates(procs[p].cityName)
               /\ procs[p].op = "cityExists" => procs[p].ret = TRUE

\* two callers have both resolved the second city of the dataset
C24_Witness ==
    /\ procs[1].op = "getCityCoordinates"
    /\ procs[1].cityName = <<"p", " ", "q">>
    /\ procs[1].ret = {[lat |-> 40, lng |-> -74]}
    /\ procs[2].op = "getCityByName"
    /\ procs[2].cityName = <<"p", " ", "q">>
    /\ procs[2].ret # {}

----------------------------------------------------------------------------
(* Colliding meeting ids *)

\* the files stored under the id
FilesNamed(files, id) == {f \in files : f.name = id}

\* C25: a createMeeting whose id is already stored returns its record as any
\* other call does, leaves exactly one file under the id, holding the record
\* of this call, leaves the other files as they were, and the number of files
\* is the same as before.
C25_CollisionOverwrites ==
    (last.op = "createMeeting" /\ meetingFileExists(last.before, last.ret.id)) =>
        /\ last.ret = createMeeting(last.ret.createdAt, last.title, last.participantIds)
        /\ FilesNamed(meetingFiles, last.ret.id)
               = {[name |-> last.ret.id, json |-> {last.ret}]}
        /\ loadMeeting(meetingFiles, last.ret.id) \subseteq {last.ret}
        /\ meetingFiles \ FilesNamed(meetingFiles, last.ret.id)
               = last.before \ FilesNamed(last.before, last.ret.id)
        /\ Cardinality(meetingFiles) = Cardinality(last.before)

\* a meeting with another title and another roster was stored under the id on
\* the same day
C25_Witness ==
    /\ last.op = "createMeeting"
    /\ last.title = <<"s", "!">>
    /\ \E f \in last.before :
           /\ f.name = last.ret.id
           /\ \E m \in f.json : m.title = <<"S">> /\ m.participantIds # last.participantIds
    /\ loadMeeting(meetingFiles, last.ret.id) = {last.ret}

----------------------------------------------------------------------------
(* The operations of the Member Registry and of the Meeting Registry and the
   visualization, called one after the other on the same stores *)

\* the participantIds of the meetings created and the ids asked of getMembersByIds
StoreIdLists == { <<1>>, <<2, UnknownId, 1>> }

\* two titles with different slugs
StoreTitles == { <<"S">>, <<"q">> }

\* a pair that the stored legacy record matches and one that no record matches
StoreMemberInputs == { ResolvingParticipant, UnresolvedParticipant }

InitStores == InitMembers

NextStores ==
    \/ \E p \in StoreMemberInputs : FindOrCreateMember(p.name, p.city)
    \/ \E ids \in StoreIdLists : GetMembersByIds(ids)
    \/ \E title \in StoreTitles, ids \in StoreIdLists : CreateMeeting(title, ids)
    \/ \E id \in MeetingIdInputs : LoadMeeting(id)
    \/ ListMeetings
    \/ \E id \in MeetingIdInputs : DeleteMeeting(id)
    \/ \E id \in MeetingIdInputs : GetVisualization(id)

SpecStores == InitStores /\ [][NextStores]_vars

\* the record is in the registry
Present(record, file) == \E j \in 1..Len(file) : file[j] = record

\* the registry holds a record with the name, city and createdAt of `record`
\* and, when `record` has an id, with its id
PresentUpToLegacyId(record, file) ==
    \E j \in 1..Len(file) :
        /\ file[j].name = record.name
        /\ file[j].city = record.city
        /\ file[j].createdAt = record.createdAt
        /\ record.id # NoId => file[j].id = record.id

MeetingRegistryOps == {"createMeeting", "loadMeeting", "listMeetings", "deleteMeeting"}
MemberRegistryOps == {"findOrCreateMember", "getMembersByIds"}

\* C27: a Meeting Registry operation leaves the member collection as it was, a
\* Member Registry operation and the visualization leave every meeting file as
\* it was, the visualization leaves the member collection as it was, the cache
\* of city data changes only by its population from the dataset, and a meeting
\* file appears, changes or disappears only in a delete of its id or a create
\* that yields its id.
C27_OwnWritePaths ==
    [][ /\ last'.op \in MeetingRegistryOps => membersFile' = membersFile
        /\ last'.op \in MemberRegistryOps => meetingFiles' = meetingFiles
        /\ last'.op = "GET visualization" =>
               (membersFile' = membersFile /\ meetingFiles' = meetingFiles)
        /\ membersFile' # membersFile => last'.op = "findOrCreateMember"
        /\ citiesCache' # citiesCache =>
               (citiesCache = <<>> /\ citiesCache' = PopulatedOnce)
        /\ \A f \in (meetingFiles \ meetingFiles') \cup (meetingFiles' \ meetingFiles) :
               \/ last'.op = "deleteMeeting" /\ last'.id = f.name /\ f \notin meetingFiles'
               \/ last'.op = "createMeeting" /\ last'.ret.id = f.name ]_vars

\* a meeting has been created while another meeting and two members were
\* stored, and they are stored as before
C27_Witness ==
    /\ last.op = "createMeeting"
    /\ Len(membersFile) = 2
    /\ \E f \in last.before : f.name # last.ret.id /\ f \in meetingFiles
    /\ citiesCache = PopulatedOnce

----------------------------------------------------------------------------
(* Identity of the member records *)

\* the positions of the registry whose record has the id
PositionsOfId(file, id) == {i \in 1..Len(file) : file[i].id = id}

\* C28: no two records of the registry have the same id, and the id of the
\* member returned by findOrCreate is the id of exactly one stored record.
C28_UniqueIds ==
    /\ \A i \in 1..Len(membersFile) :
           membersFile[i].id # NoId =>
               PositionsOfId(membersFile, membersFile[i].id) = {i}
    /\ FindOrCreateReturned =>
           /\ TheMember(last.ret).id # NoId
           /\ Cardinality(PositionsOfId(membersFile, TheMember(last.ret).id)) = 1

\* a record has been appended after a record without an id, and a later call
\* has found the record without an id and given it one
C28_Witness ==
    /\ FindOrCreateReturned
    /\ Len(membersFile) = 2
    /\ last.before[1].id = NoId
    /\ membersFile[1].id = 2
    /\ membersFile[2].id = 1
    /\ TheMember(last.ret) = membersFile[1]

----------------------------------------------------------------------------
(* Meetings created by POST /api/meetings, members found or created and
   meetings deleted, one request after the other *)

InitIntegrity == Init

NextIntegrity ==
    \/ \E p \in StoreMemberInputs : FindOrCreateMember(p.name, p.city)
    \/ \E title \in StoreTitles, participants \in ParticipantLists :
           PostMeetings(title, participants)
    \/ \E id \in MeetingIdInputs : DeleteMeeting(id)
    \/ \E id \in MeetingIdInputs : GetVisualization(id)

SpecIntegrity == InitIntegrity /\ [][NextIntegrity]_vars

----------------------------------------------------------------------------
(* A record lost between two interleaved findOrCreate calls *)

\* call p has returned the member it created, and no record of the registry
\* has that member's id
LostUpdate(p) ==
    /\ procs[p].pc = "done"
    /\ procs[p].created
    /\ PositionsOfId(membersFile, TheMember(procs[p].ret).id) = {}

\* call q has written the collection it had read before call p's record was in it
WroteWithout(q, p) ==
    /\ procs[q].pc = "done"
    /\ ~procs[q].threw
    /\ \A i \in 1..Len(procs[q].members) :
           procs[q].members[i].id # TheMember(procs[p].ret).id

\* the points of the visualization of a meeting whose only participant is id
PointsOfMeetingWith(id) ==
    LET meeting == createMeeting(now, <<"S">>, <<id>>)
    IN  computeVisualization(saveMeeting({}, meeting), membersFile, citiesCache,
                             meeting.id).response.points

\* C30: when a member returned to the caller that created it is absent from
\* the registry, another call has written a collection read before that member
\* was stored, and the visualization of a meeting that references the member's
\* id has no point for it; (witness) this happens between two calls for two
\* different pairs.
C30_LostUpdate ==
    \A p \in 1..Len(procs) :
        LostUpdate(p) =>
            /\ \E q \in 1..Len(procs) : q # p /\ WroteWithout(q, p)
            /\ getMembersByIds(membersFile, <<TheMember(procs[p].ret).id>>) = <<>>
            /\ PointsOfMeetingWith(TheMember(procs[p].ret).id) = <<>>

\* the member of a city of the dataset is lost to the write of a call that
\* created a member with another city, whose record is in the registry
C30_Witness ==
    \E p, q \in 1..Len(procs) :
        /\ LostUpdate(p)
        /\ DatasetCoordinates(TheMember(procs[p].ret).city) # {}
        /\ procs[q].pc = "done" /\ procs[q].created
        /\ ~SamePair(TheMember(procs[p].ret), TheMember(procs[q].ret))
        /\ \E i \in 1..Len(membersFile) : membersFile[i] \in procs[q].ret
        /\ Len(membersFile) = 1

====
